---- MODULE Spec2Model ----
(***************************************************************************)
(* A model of the MMIX machine emulator of src/mmix.js: the sparse         *)
(* byte-addressable big-endian memory (class Memory64), the register file  *)
(* and program counter (class MMIX) and the formatting helpers.            *)
(*                                                                         *)
(* JavaScript BigInt values are unbounded two's-complement integers.  They *)
(* are modelled here as tuples of NB bytes, least significant byte first,  *)
(* in two's complement: bit 7 of the last byte is the sign, which stands   *)
(* for the infinite run of sign bits of the BigInt.  NB is chosen so that  *)
(* no operation of the program leaves the representable range on the       *)
(* inputs explored, so every operator below computes exactly what the      *)
(* BigInt operator computes.                                               *)
(***************************************************************************)
EXTENDS Integers, Sequences, FiniteSets, TLC

\* ------------------------------------------------------------------------
\* Bounds of the model
\* ------------------------------------------------------------------------

\* Number of bytes of the two's-complement window that represents a BigInt.
NB == 10

\* Number of operations explored from a new machine (specification Spec).
MaxOps == 3

\* Number of operations explored from a new store (specification SpecMem).
MaxMemOps == 2

\* ------------------------------------------------------------------------
\* BigInt arithmetic (the operators the source applies to BigInt values)
\* ------------------------------------------------------------------------

ByteIdx == 1..NB

RECURSIVE BitAndNat(_, _, _)
\* bitwise AND of two naturals below 2^n
BitAndNat(a, b, n) ==
  IF n = 0 THEN 0
  ELSE (a % 2) * (b % 2) + 2 * BitAndNat(a \div 2, b \div 2, n - 1)

\* x & y on single bytes, tabulated once
AndTab == [a \in 0..255 |-> [b \in 0..255 |-> BitAndNat(a, b, 8)]]

ByteAnd(a, b) == AndTab[a][b]
ByteOr(a, b)  == a + b - AndTab[a][b]
ByteNot(a)    == 255 - a

\* BigInt(n) for a small non-negative Number n (n < 2^24)
BigOfNat(n) ==
  [i \in ByteIdx |->
     IF i = 1 THEN n % 256
     ELSE IF i = 2 THEN (n \div 256) % 256
     ELSE IF i = 3 THEN (n \div 65536) % 256
     ELSE 0]

\* A non-negative BigInt literal given by its bytes, most significant first
BigOfBytes(s) ==
  [i \in ByteIdx |-> IF i <= Len(s) THEN s[Len(s) + 1 - i] ELSE 0]

Zero == BigOfNat(0)
One  == BigOfNat(1)

\* x < 0n
IsNeg(x) == x[NB] >= 128

\* truthiness of a BigInt: x is not 0n
Truthy(x) == x # Zero

\* x & y
BAnd(x, y) == [i \in ByteIdx |-> ByteAnd(x[i], y[i])]

\* x | y
BOr(x, y) == [i \in ByteIdx |-> ByteOr(x[i], y[i])]

\* ~x
BNot(x) == [i \in ByteIdx |-> ByteNot(x[i])]

RECURSIVE AddFrom(_, _, _, _)
AddFrom(x, y, i, c) ==
  IF i > NB THEN <<>>
  ELSE LET s == x[i] + y[i] + c
       IN  <<s % 256>> \o AddFrom(x, y, i + 1, s \div 256)

\* x + y
BAdd(x, y) == AddFrom(x, y, 1, 0)

\* x - y
BSub(x, y) == AddFrom(x, BNot(y), 1, 1)

\* x << 8n
ShlByte(x) == [i \in ByteIdx |-> IF i = 1 THEN 0 ELSE x[i - 1]]

\* x << 1n
ShlBit(x) ==
  [i \in ByteIdx |->
     ((2 * x[i]) % 256) + (IF i = 1 THEN 0 ELSE x[i - 1] \div 128)]

RECURSIVE Shl(_, _)
\* x << BigInt(k), k a natural number
Shl(x, k) ==
  IF k >= 8 THEN Shl(ShlByte(x), k - 8)
  ELSE IF k > 0 THEN Shl(ShlBit(x), k - 1)
  ELSE x

\* x >> 8n (arithmetic: the sign is kept)
ShrByte(x) ==
  [i \in ByteIdx |->
     IF i = NB THEN (IF IsNeg(x) THEN 255 ELSE 0) ELSE x[i + 1]]

\* x >> 1n
ShrBit(x) ==
  [i \in ByteIdx |->
     (x[i] \div 2)
       + 128 * (IF i = NB THEN x[NB] \div 128 ELSE x[i + 1] % 2)]

RECURSIVE Shr(_, _)
\* x >> BigInt(k), k a natural number
Shr(x, k) ==
  IF k >= 8 THEN Shr(ShrByte(x), k - 8)
  ELSE IF k > 0 THEN Shr(ShrBit(x), k - 1)
  ELSE x

RECURSIVE LessFrom(_, _, _)
\* unsigned comparison of the bytes i..1 of x and y
LessFrom(x, y, i) ==
  IF i = 0 THEN FALSE
  ELSE IF x[i] # y[i] THEN x[i] < y[i]
  ELSE LessFrom(x, y, i - 1)

\* x < y
BLess(x, y) ==
  IF IsNeg(x) # IsNeg(y) THEN IsNeg(x) ELSE LessFrom(x, y, NB)


\* ------------------------------------------------------------------------
\* Width constants (const Width)
\* ------------------------------------------------------------------------

BYTE  == 1
WYDE  == 2
TETRA == 4
OCTA  == 8
\* Width.HIGH_TETRA is the string 'high_tetra' in the source: a value that is
\* none of the numeric widths.  It is encoded here as the number 0 so that it
\* can be compared with the numeric widths.
HIGH_TETRA == 0

Widths == {BYTE, WYDE, TETRA, OCTA}
AllWidths == Widths \cup {HIGH_TETRA}

\* ------------------------------------------------------------------------
\* The store: a JavaScript Map from BigInt address to BigInt byte value.
\* A Map keeps its entries in insertion order; it is modelled as the sequence
\* of its entries [k |-> key, v |-> value] in that order.
\* ------------------------------------------------------------------------

EmptyMap == <<>>

MapHas(m, k) == \E j \in 1..Len(m) : m[j].k = k

\* Map.prototype.get: the value of the entry with key k (k must be present)
MapGet(m, k) == m[CHOOSE j \in 1..Len(m) : m[j].k = k].v

\* Map.prototype.set: overwrite in place, or append a new entry
MapSet(m, k, v) ==
  IF MapHas(m, k)
  THEN [j \in 1..Len(m) |-> IF m[j].k = k THEN [k |-> k, v |-> v] ELSE m[j]]
  ELSE Append(m, [k |-> k, v |-> v])

\* Map.prototype.keys, as an array in insertion order
MapKeys(m) == [j \in 1..Len(m) |-> m[j].k]

\* ------------------------------------------------------------------------
\* class Memory64
\* ------------------------------------------------------------------------

\* a variant of alignAddress that leaves the address as it is
alignAddressNone(addr, width) == addr

\* a variant of alignAddress that rounds up to the next boundary
alignAddressUp(addr, width) ==
  LET w    == IF width = HIGH_TETRA THEN TETRA ELSE width
      mask == BigOfNat(w - 1)
  IN  BAnd(BAdd(addr, mask), BNot(mask))

\* alignAddress(addr, width)
alignAddress(addr, width) ==
  LET w    == IF width = HIGH_TETRA THEN TETRA ELSE width
      mask == BigOfNat(w - 1)
  IN  BAnd(addr, BNot(mask))

\* readByte(addr): this.store.get(addr) ?? 0n
readByte(store, addr) ==
  IF MapHas(store, addr) THEN MapGet(store, addr) ELSE Zero

\* a variant of writeByte that stores the value without masking it
writeByteNoMask(store, addr, value) == MapSet(store, addr, value)

\* writeByte(addr, value): the store after the call
writeByte(store, addr, value) ==
  MapSet(store, addr, BAnd(value, BigOfNat(255)))

\* signExtend(value, width)
signExtend(value, width) ==
  LET bits    == width * 8
      signBit == Shl(One, bits - 1)
  IN  IF Truthy(BAnd(value, signBit))
      THEN LET mask == BSub(Shl(One, bits), One)
           IN  BOr(value, BNot(mask))
      ELSE value

RECURSIVE readLoopNoShift(_, _, _, _, _)
\* a variant of readLoop that ORs the bytes without shifting the accumulator
readLoopNoShift(store, alignedAddr, actualWidth, i, result) ==
  IF i < actualWidth
  THEN LET byte == readByte(store, BAdd(alignedAddr, BigOfNat(i)))
       IN  readLoopNoShift(store, alignedAddr, actualWidth, i + 1,
                           BOr(result, byte))
  ELSE result

RECURSIVE readLoop(_, _, _, _, _)
\* the for loop of read: i is the loop counter, result the accumulator
\* (v is the accumulator after this iteration, computed before the next one)
readLoop(store, alignedAddr, actualWidth, i, result) ==
  IF i < actualWidth
  THEN LET byte == readByte(store, BAdd(alignedAddr, BigOfNat(i)))
       IN  CHOOSE r \in
             {readLoop(store, alignedAddr, actualWidth, i + 1, v) :
                v \in {BOr(Shl(result, 8), byte)}} : TRUE
  ELSE result

\* a variant of read that leaves a high tetra in the low 32 bits
readNoHighShift(store, addr, width, signed, highTetra) ==
  LET isHigh      == width = HIGH_TETRA \/ highTetra
      actualWidth == IF isHigh THEN TETRA ELSE width
      alignedAddr == alignAddress(addr, actualWidth)
      result      == readLoop(store, alignedAddr, actualWidth, 0, Zero)
  IN  IF isHigh THEN result
      ELSE IF signed THEN signExtend(result, actualWidth)
      ELSE result

\* a variant of read that starts at the address as given
readUnaligned(store, addr, width, signed, highTetra) ==
  LET isHigh      == width = HIGH_TETRA \/ highTetra
      actualWidth == IF isHigh THEN TETRA ELSE width
      result      == readLoop(store, addr, actualWidth, 0, Zero)
  IN  IF isHigh THEN Shl(result, 32)
      ELSE IF signed THEN signExtend(result, actualWidth)
      ELSE result

\* read(addr, width, {signed, highTetra})
read(store, addr, width, signed, highTetra) ==
  LET isHigh      == width = HIGH_TETRA \/ highTetra
      actualWidth == IF isHigh THEN TETRA ELSE width
      alignedAddr == alignAddress(addr, actualWidth)
      result      == readLoop(store, alignedAddr, actualWidth, 0, Zero)
  IN  IF isHigh THEN Shl(result, 32)
      ELSE IF signed THEN signExtend(result, actualWidth)
      ELSE result

RECURSIVE writeLoop(_, _, _, _)
\* the for loop of write: i counts down from actualWidth - 1 to 0
\* (s and v are the store and the value after this iteration, computed
\* before the next one)
writeLoop(store, alignedAddr, i, actualValue) ==
  IF i >= 0
  THEN LET byte == BAnd(actualValue, BigOfNat(255))
       IN  CHOOSE r \in
             {writeLoop(s, alignedAddr, i - 1, v) :
                s \in {writeByte(store, BAdd(alignedAddr, BigOfNat(i)), byte)},
                v \in {Shr(actualValue, 8)}} : TRUE
  ELSE store

\* a variant of write that stores the low 32 bits for a high tetra
writeNoHighShift(store, addr, width, value, highTetra) ==
  LET isHigh      == width = HIGH_TETRA \/ highTetra
      actualWidth == IF isHigh THEN TETRA ELSE width
      alignedAddr == alignAddress(addr, actualWidth)
      mask        == BSub(Shl(One, actualWidth * 8), One)
  IN  writeLoop(store, alignedAddr, actualWidth - 1, BAnd(value, mask))

\* a variant of write whose loop stores one byte more, after the block
writeSpill(store, addr, width, value, highTetra) ==
  LET isHigh      == width = HIGH_TETRA \/ highTetra
      actualWidth == IF isHigh THEN TETRA ELSE width
      shifted     == IF isHigh THEN Shr(value, 32) ELSE value
      alignedAddr == alignAddress(addr, actualWidth)
      mask        == BSub(Shl(One, actualWidth * 8), One)
  IN  writeLoop(store, alignedAddr, actualWidth,
                Shl(BAnd(shifted, mask), 8))

\* write(addr, width, value, {highTetra}): the store after the call
write(store, addr, width, value, highTetra) ==
  LET isHigh      == width = HIGH_TETRA \/ highTetra
      actualWidth == IF isHigh THEN TETRA ELSE width
      shifted     == IF isHigh THEN Shr(value, 32) ELSE value
      alignedAddr == alignAddress(addr, actualWidth)
      mask        == BSub(Shl(One, actualWidth * 8), One)
  IN  writeLoop(store, alignedAddr, actualWidth - 1, BAnd(shifted, mask))

RECURSIVE InsertSorted(_, _)
\* the array s (sorted) with x inserted after the elements not greater than x
InsertSorted(s, x) ==
  IF s = <<>> THEN <<x>>
  ELSE IF BLess(x, Head(s)) THEN <<x>> \o s
  ELSE <<Head(s)>> \o InsertSorted(Tail(s), x)

RECURSIVE SortBig(_)
\* Array.prototype.sort with the comparator (a, b) => a < b ? -1 : a > b ? 1 : 0
\* (a stable sort by numeric value)
SortBig(s) ==
  IF s = <<>> THEN <<>>
  ELSE InsertSorted(SortBig(SubSeq(s, 1, Len(s) - 1)), s[Len(s)])

\* a variant of getUsedAddresses without the sort
getUsedAddressesUnsorted(store) == MapKeys(store)

\* getUsedAddresses()
getUsedAddresses(store) == SortBig(MapKeys(store))

\* a variant of clear that removes nothing
clearKeep(store) == store

\* clear(): the store after the call
clear(store) == EmptyMap


\* ------------------------------------------------------------------------
\* class MMIX: the register file
\* reg and sreg are BigUint64Array(256) and BigUint64Array(32): an element
\* holds a BigInt in [0, 2^64); a store converts its value modulo 2^64, a
\* store at an index that is no element is ignored and a load from such an
\* index yields undefined.
\* ------------------------------------------------------------------------

NumRegs == 256
NumSpecialRegs == 32

\* a value returned to the caller: a BigInt, an array, undefined, or a throw
Val(v)    == [kind |-> "value", v |-> v]
Undefined == [kind |-> "undefined", v |-> Zero]
NoResult  == [kind |-> "none", v |-> Zero]

\* a variant of Mask64 with 32 bits: (1n << 32n) - 1n
Mask32 == BSub(Shl(One, 32), One)

\* (1n << 64n) - 1n
Mask64 == BSub(Shl(One, 64), One)

\* the conversion ToBigUint64 of a typed-array store: the value modulo 2^64
ToBigUint64(v) == [i \in ByteIdx |-> IF i <= 8 THEN v[i] ELSE 0]

\* typedArray[index] for a Number index
ArrayGet(arr, index) ==
  IF index \in DOMAIN arr THEN Val(arr[index]) ELSE Undefined

\* a variant of ArraySet that stores at the nearest element when the index is
\* no element
ArraySetClamp(arr, index, v) ==
  LET j == IF index \in DOMAIN arr THEN index
           ELSE IF index < 0 THEN 0 ELSE Cardinality(DOMAIN arr) - 1
  IN  [arr EXCEPT ![j] = ToBigUint64(v)]

\* a variant of ArraySet that also stores at the element after the index
ArraySetNext(arr, index, v) ==
  [j \in DOMAIN arr |->
     IF j = index \/ j = index + 1 THEN ToBigUint64(v) ELSE arr[j]]

\* typedArray[index] = v for a Number index: the array after the store
ArraySet(arr, index, v) ==
  IF index \in DOMAIN arr
  THEN [arr EXCEPT ![index] = ToBigUint64(v)]
  ELSE arr

\* getReg(index)
getReg(reg, index) == ArrayGet(reg, index)

\* setReg(index, value): this.reg after the call
setReg(reg, index, value) == ArraySet(reg, index, BAnd(value, Mask64))

\* getSpecialReg(index)
getSpecialReg(sreg, index) == ArrayGet(sreg, index)

\* setSpecialReg(index, value): this.sreg after the call
setSpecialReg(sreg, index, value) == ArraySet(sreg, index, BAnd(value, Mask64))

\* a variant of Fill0 that stops one element short
FillButLast(arr) ==
  [i \in DOMAIN arr |->
     IF i + 1 \in DOMAIN arr THEN Zero ELSE arr[i]]

\* typedArray.fill(0n)
Fill0(arr) == [i \in DOMAIN arr |-> Zero]

\* a variant of reset that leaves the memory alone
resetKeepMem(m) ==
  [mem  |-> m.mem,
   reg  |-> Fill0(m.reg),
   sreg |-> Fill0(m.sreg),
   pc   |-> Zero]

\* reset(): the machine after the call
reset(m) ==
  [mem  |-> clear(m.mem),
   reg  |-> Fill0(m.reg),
   sreg |-> Fill0(m.sreg),
   pc   |-> Zero]

\* ------------------------------------------------------------------------
\* Strings.  A JavaScript string is modelled as the sequence of its
\* characters, each a one-character string.
\* ------------------------------------------------------------------------

RECURSIVE Str(_)
\* the string of a sequence of characters (used to look names up)
Str(cs) == IF cs = <<>> THEN "" ELSE Head(cs) \o Str(Tail(cs))

\* String.prototype.startsWith, for a one-character prefix
startsWith(cs, c) == Len(cs) >= 1 /\ cs[1] = c

\* String.prototype.slice(k): the characters from position k (0-based) on
slice(cs, k) == SubSeq(cs, k + 1, Len(cs))

DecDigits == <<"0", "1", "2", "3", "4", "5", "6", "7", "8", "9">>

IsDecDigit(c) == \E d \in 1..10 : DecDigits[d] = c

\* the value of a decimal digit character
DigitVal(c) == (CHOOSE d \in 1..10 : DecDigits[d] = c) - 1

\* a Number that is not NaN, and NaN
Num(n) == [nan |-> FALSE, n |-> n]
NaN    == [nan |-> TRUE, n |-> 0]

\* StrWhiteSpaceChar, the white space and line terminators parseInt removes.
\* Those a string of this module can hold are here: space, tab, line feed,
\* carriage return, form feed, and, written as the characters themselves
\* (there is no escape for them), vertical tab U+000B, no-break space U+00A0,
\* ogham space mark U+1680 and zero width no-break space U+FEFF.  The other
\* sixteen (U+2000..U+200A, U+2028, U+2029, U+202F, U+205F, U+3000) are no
\* characters of a string of this module: no name of the model holds one.
WhiteSpaceChars ==
  {" ", "\t", "\n", "\r", "\f", "", " ", " ", "﻿"}

RECURSIVE SkipSpaces(_)
\* parseInt step: leading white space is removed
SkipSpaces(cs) ==
  IF cs # <<>> /\ Head(cs) \in WhiteSpaceChars
  THEN SkipSpaces(Tail(cs))
  ELSE cs

RECURSIVE DigitPrefix(_)
\* parseInt step: the longest prefix of cs made of decimal digits
DigitPrefix(cs) ==
  IF cs # <<>> /\ IsDecDigit(Head(cs))
  THEN <<Head(cs)>> \o DigitPrefix(Tail(cs))
  ELSE <<>>

RECURSIVE DigitsValue(_, _)
\* parseInt step: the number a sequence of decimal digits denotes
DigitsValue(ds, acc) ==
  IF ds = <<>> THEN acc
  ELSE DigitsValue(Tail(ds), 10 * acc + DigitVal(Head(ds)))

\* parseInt(string, 10): white space is skipped, one sign is read, then the
\* longest run of digits; what follows the digits is ignored, and without a
\* digit the result is NaN.  (-0 is modelled as 0: as an index both are "0".)
parseInt(cs) ==
  LET t    == SkipSpaces(cs)
      neg  == t # <<>> /\ Head(t) = "-"
      body == IF t # <<>> /\ Head(t) \in {"+", "-"} THEN Tail(t) ELSE t
      ds   == DigitPrefix(body)
  IN  IF ds = <<>> THEN NaN
      ELSE Num((IF neg THEN -1 ELSE 1) * DigitsValue(ds, 0))

\* const SpecialReg: the own properties of the table
SpecialReg ==
  [n \in {"rA", "rB", "rC", "rD", "rE", "rF", "rG", "rH", "rI", "rJ", "rK",
          "rL", "rM", "rN", "rO", "rP", "rQ", "rR", "rS", "rT", "rU", "rV",
          "rW", "rX", "rY", "rZ", "rBB", "rTT", "rWW", "rXX", "rYY", "rZZ"} |->
     CASE n = "rA" -> 21 [] n = "rB" -> 0  [] n = "rC" -> 8  [] n = "rD" -> 1
       [] n = "rE" -> 2  [] n = "rF" -> 22 [] n = "rG" -> 19 [] n = "rH" -> 3
       [] n = "rI" -> 12 [] n = "rJ" -> 4  [] n = "rK" -> 15 [] n = "rL" -> 20
       [] n = "rM" -> 5  [] n = "rN" -> 9  [] n = "rO" -> 10 [] n = "rP" -> 23
       [] n = "rQ" -> 16 [] n = "rR" -> 6  [] n = "rS" -> 11 [] n = "rT" -> 13
       [] n = "rU" -> 17 [] n = "rV" -> 18 [] n = "rW" -> 24 [] n = "rX" -> 25
       [] n = "rY" -> 26 [] n = "rZ" -> 27 [] n = "rBB" -> 7 [] n = "rTT" -> 14
       [] n = "rWW" -> 28 [] n = "rXX" -> 29 [] n = "rYY" -> 30
       [] n = "rZZ" -> 31]

\* SpecialReg is an object literal: the operator `in` also finds the
\* properties it inherits from Object.prototype, whose values are functions
\* (for __proto__, an object), never slot numbers
ObjectPrototypeNames ==
  {"constructor", "hasOwnProperty", "isPrototypeOf", "propertyIsEnumerable",
   "toLocaleString", "toString", "valueOf", "__proto__", "__defineGetter__",
   "__defineSetter__", "__lookupGetter__", "__lookupSetter__"}

\* the outcome of a call that threw
Thrown == [kind |-> "throw", v |-> Zero]

\* getRegByName(name): what the call returns, or Thrown
getRegByName(m, name) ==
  IF startsWith(name, "$")
  THEN LET index == parseInt(slice(name, 1))
       IN  \* this.reg[NaN] is undefined: NaN is no element index
           IF index.nan THEN Undefined ELSE getReg(m.reg, index.n)
  ELSE IF Str(name) \in DOMAIN SpecialReg
  THEN getSpecialReg(m.sreg, SpecialReg[Str(name)])
  ELSE IF Str(name) \in ObjectPrototypeNames
  THEN Undefined
  ELSE Thrown

\* ------------------------------------------------------------------------
\* Formatting helpers: formatHex and formatSigned
\* ------------------------------------------------------------------------

RECURSIVE DivSmallFrom(_, _, _, _)
\* long division of the non-negative x by the small number d, from byte i
\* down: the quotient bytes above i are in q, rem is the running remainder
DivSmallFrom(x, d, i, acc) ==
  IF i = 0 THEN acc
  ELSE LET cur == acc.rem * 256 + x[i]
       IN  DivSmallFrom(x, d, i - 1,
                        [q   |-> [acc.q EXCEPT ![i] = cur \div d],
                         rem |-> cur % d])

\* x / d and x % d for a non-negative BigInt x and a radix d
DivSmall(x, d) == DivSmallFrom(x, d, NB, [q |-> Zero, rem |-> 0])

LowerDigits ==
  <<"0", "1", "2", "3", "4", "5", "6", "7", "8", "9",
    "a", "b", "c", "d", "e", "f">>

RECURSIVE DigitsOf(_, _)
\* the digits of the positive x in the given radix, most significant first
\* (the empty string for 0)
DigitsOf(x, radix) ==
  IF x = Zero THEN <<>>
  ELSE LET dm == DivSmall(x, radix)
       IN  Append(DigitsOf(dm.q, radix), LowerDigits[dm.rem + 1])

\* BigInt.prototype.toString(radix): a minus sign and the magnitude for a
\* negative value, lower-case digits, "0" for 0n
toString(x, radix) ==
  IF x = Zero THEN <<"0">>
  ELSE IF IsNeg(x) THEN <<"-">> \o DigitsOf(BSub(Zero, x), radix)
  ELSE DigitsOf(x, radix)

\* String.prototype.toUpperCase, on one character
UpperChar(c) ==
  CASE c = "a" -> "A" [] c = "b" -> "B" [] c = "c" -> "C"
    [] c = "d" -> "D" [] c = "e" -> "E" [] c = "f" -> "F"
    [] OTHER -> c

\* String.prototype.toUpperCase
toUpperCase(cs) == [j \in 1..Len(cs) |-> UpperChar(cs[j])]

\* String.prototype.padStart(n, c) for a one-character pad
padStart(cs, n, c) ==
  IF Len(cs) >= n THEN cs
  ELSE [j \in 1..(n - Len(cs)) |-> c] \o cs

\* a string returned to the caller
StrVal(cs) == [kind |-> "string", v |-> cs]

\* a variant of formatHex without the treatment of negative values
formatHexNoWrap(value, digits) ==
  padStart(toUpperCase(toString(value, 16)), digits, "0")

\* formatHex(value, digits)
formatHex(value, digits) ==
  LET v == IF BLess(value, Zero) THEN BAdd(Shl(One, 64), value) ELSE value
  IN  padStart(toUpperCase(toString(v, 16)), digits, "0")

\* a variant of formatSigned that renders the value as it is
formatSignedPlain(value) == toString(value, 10)

\* formatSigned(value)
formatSigned(value) ==
  IF Truthy(BAnd(value, Shl(One, 63)))
  THEN toString(BSub(value, Shl(One, 64)), 10)
  ELSE toString(value, 10)

\* ------------------------------------------------------------------------
\* The page script: loadExample()
\* ------------------------------------------------------------------------

\* 0x0123456789abcdefn
VExample == BigOfBytes(<<1, 35, 69, 103, 137, 171, 205, 239>>)

\* "HELLO MMIX!": message.charCodeAt(i) for i = 0 .. message.length - 1
MessageCodes == <<72, 69, 76, 76, 79, 32, 77, 77, 73, 88, 33>>

RECURSIVE messageLoop(_, _)
\* the for loop over the message: i is the loop counter
\* (s is the store after this iteration, computed before the next one)
messageLoop(store, i) ==
  IF i < Len(MessageCodes)
  THEN CHOOSE r \in
         {messageLoop(s, i + 1) :
            s \in {write(store, BAdd(BigOfNat(2000), BigOfNat(i)), BYTE,
                         BigOfNat(MessageCodes[i + 1]), FALSE)}} : TRUE
  ELSE store

\* the statements of loadExample() after its first one, on the machine m
loadExampleBody(m) ==
  LET mem1  == write(m.mem, BigOfNat(1000), OCTA, VExample, FALSE)
      reg1  == setReg(m.reg, 0, VExample)
      reg2  == setReg(reg1, 1, BigOfNat(1000))
      reg3  == setReg(reg2, 2, BigOfNat(1000))
      reg4  == setReg(reg3, 3, BigOfNat(2))
      mem2  == messageLoop(mem1, 0)
      sreg1 == setSpecialReg(m.sreg, SpecialReg["rA"], Zero)
      sreg2 == setSpecialReg(sreg1, SpecialReg["rG"], BigOfNat(32))
  IN  [mem |-> mem2, reg |-> reg4, sreg |-> sreg2, pc |-> BigOfNat(256)]

\* a variant of loadExample() without the reset
loadExampleNoReset(m) == loadExampleBody(m)

\* loadExample(): the machine after the call
loadExample(m) == loadExampleBody(reset(m))

\* ------------------------------------------------------------------------
\* The page script: randomizeRegisters()
\* ------------------------------------------------------------------------

\* What the calls of Math.random decide for one register is a record:
\* first is Math.random() > 0.7, second is Math.random() > 0.5 (drawn only
\* when first is false), high and low are the two values of
\* BigInt(Math.floor(Math.random() * 0xFFFFFFFF)) and small is
\* BigInt(Math.floor(Math.random() * 1000)).

\* the value stored in a register, given what was drawn for it
randomValue(d) ==
  IF d.first THEN BOr(Shl(d.high, 32), d.low)
  ELSE IF d.second THEN d.small
  ELSE Zero

RECURSIVE randomizeRange(_, _, _, _)
\* the iterations lo..hi of the for loop, in the order of the loop (the range
\* is run in two halves, the first before the second)
randomizeRange(reg, lo, hi, values) ==
  IF lo = hi THEN setReg(reg, lo, values[lo])
  ELSE CHOOSE r \in
         {randomizeRange(half, (lo + hi) \div 2 + 1, hi, values) :
            half \in {randomizeRange(reg, lo, (lo + hi) \div 2, values)}} : TRUE

\* randomizeRegisters(): the machine after the call, given the value that the
\* draws of Math.random make for each of the 256 registers
randomizeRegisters(m, values) ==
  [m EXCEPT !.reg = randomizeRange(m.reg, 0, 255, values)]

\* ------------------------------------------------------------------------
\* The state machine
\* ------------------------------------------------------------------------

VARIABLES
  mem,    \* mmix.mem.store
  reg,    \* mmix.reg
  sreg,   \* mmix.sreg
  pc,     \* mmix.pc
  last,   \* history: the last operation, its arguments and what it returned
  before, \* history: the parts of the machine that were not as new before it
  shadow, \* history: the bytes stored since construction or the last clear
  budget  \* the number of operations still to be explored

vars == <<mem, reg, sreg, pc, last, before, shadow, budget>>

Machine == [mem |-> mem, reg |-> reg, sreg |-> sreg, pc |-> pc]

\* the record of an operation
Op(name, addr, width, value, signed, ht, idx, res) ==
  [op |-> name, addr |-> addr, width |-> width, value |-> value,
   signed |-> signed, ht |-> ht, idx |-> idx, res |-> res]

NoOp == Op("new", Zero, BYTE, Zero, FALSE, FALSE, 0, NoResult)

\* The history variable shadow is the memory as the specification describes
\* it: a function from the addresses stored to since construction or the last
\* clear to the byte (0..255) last stored there.  It is computed from the
\* arguments of the operations alone, never from the store.

\* the multiple of w (1, 2, 4 or 8) at or below address a
AlignDown(a, w) == [a EXCEPT ![1] = a[1] - (a[1] % w)]

\* address base + i, for base a multiple of w and i < w
Offset(base, i) == [base EXCEPT ![1] = base[1] + i]

\* the number of bytes an access of the given width and option spans
EffWidth(width, ht) == IF width = HIGH_TETRA \/ ht THEN 4 ELSE width

\* the bytes an access stores, most significant first: bits 32..63 of the
\* value for a high-tetra access, its low width*8 bits otherwise
StoredBytes(width, value, ht) ==
  IF width = HIGH_TETRA \/ ht
  THEN <<value[8], value[7], value[6], value[5]>>
  ELSE [i \in 1..width |-> value[width + 1 - i]]

\* the addresses an access at addr spans
Block(addr, width, ht) ==
  LET w == EffWidth(width, ht)
  IN  {Offset(AlignDown(addr, w), i) : i \in 0..(w - 1)}

ShadowWriteByte(sh, addr, value) ==
  [x \in DOMAIN sh \cup {addr} |-> IF x = addr THEN value[1] ELSE sh[x]]

ShadowWrite(sh, addr, width, value, ht) ==
  LET w     == EffWidth(width, ht)
      base  == AlignDown(addr, w)
      bytes == StoredBytes(width, value, ht)
  IN  [x \in DOMAIN sh \cup Block(addr, width, ht) |->
         IF x \in Block(addr, width, ht)
         THEN bytes[x[1] - base[1] + 1]
         ELSE sh[x]]

NoShadow == [x \in {} |-> 0]

\* the parts of the machine that are not as a new machine has them
Dirty ==
  {c \in {"mem"} : mem # EmptyMap}
    \cup {c \in {"reg"} : \E i \in DOMAIN reg : reg[i] # Zero}
    \cup {c \in {"sreg"} : \E i \in DOMAIN sreg : sreg[i] # Zero}
    \cup {c \in {"pc"} : pc # Zero}

\* new MMIX()
Init ==
  /\ mem = EmptyMap
  /\ reg = [i \in 0..(NumRegs - 1) |-> Zero]
  /\ sreg = [i \in 0..(NumSpecialRegs - 1) |-> Zero]
  /\ pc = Zero
  /\ last = NoOp
  /\ before = {}
  /\ shadow = NoShadow
  /\ budget = MaxOps

\* new Memory64(): a store on its own, with no machine around it (there are
\* no registers, and the program counter is never used)
InitMem ==
  /\ mem = EmptyMap
  /\ reg = <<>>
  /\ sreg = <<>>
  /\ pc = Zero
  /\ last = NoOp
  /\ before = {}
  /\ shadow = NoShadow
  /\ budget = MaxMemOps

\* every operation is recorded in the history variables
Record(o) ==
  /\ budget > 0
  /\ budget' = budget - 1
  /\ last' = o
  /\ before' = Dirty

\* --- inputs ---------------------------------------------------------------

\* 1000 (a multiple of 8) and 1005 (in the same octabyte, aligned to nothing)
A1000 == BigOfNat(1000)
A1005 == BigOfNat(1005)
Addrs == {A1000, A1005}
\* 2^64 - 3: an unaligned address in the last octabyte of the address space
AHigh == BigOfBytes(<<255, 255, 255, 255, 255, 255, 255, 253>>)

\* the byte addresses of the octabyte at 1000, and one address outside it
ByteAddrs == {BigOfNat(1000 + i) : i \in 0..7} \cup {BigOfNat(2000)}
\* the addresses writeByte is called with
PokeAddrs == {A1000, A1005, BigOfNat(2000)}

\* 2^64 + 0x0123456789ABCDEF: the octabyte of the MMIX manual, with one bit
\* above the low 64
VManual == BigOfBytes(<<1, 1, 35, 69, 103, 137, 171, 205, 239>>)
\* -1n
VMinus1 == BNot(Zero)
\* 0x1AB: a value of more than 8 bits
V1AB == BigOfNat(427)

\* widths used at the high address, and widths read with the highTetra option
HighWidths == {OCTA, TETRA}
FlagWidths == {OCTA, BYTE}
ByteValues == {V1AB, Zero}

\* --- operations of mmix.mem -----------------------------------------------

WriteByteOp(addr, value) ==
  /\ Record(Op("writeByte", addr, BYTE, value, FALSE, FALSE, 0, NoResult))
  /\ mem' = writeByte(mem, addr, value)
  /\ shadow' = ShadowWriteByte(shadow, addr, value)
  /\ UNCHANGED <<reg, sreg, pc>>

WriteOp(addr, width, value, ht) ==
  /\ Record(Op("write", addr, width, value, FALSE, ht, 0, NoResult))
  /\ mem' = write(mem, addr, width, value, ht)
  /\ shadow' = ShadowWrite(shadow, addr, width, value, ht)
  /\ UNCHANGED <<reg, sreg, pc>>

ClearOp ==
  /\ Record(Op("clear", Zero, BYTE, Zero, FALSE, FALSE, 0, NoResult))
  /\ mem' = clear(mem)
  /\ shadow' = NoShadow
  /\ UNCHANGED <<reg, sreg, pc>>

\* a variant of ReadByteOp that stores the 0 it returns for an absent address
ReadByteOpMaterialize(addr) ==
  /\ Record(Op("readByte", addr, BYTE, Zero, FALSE, FALSE, 0,
               Val(readByte(mem, addr))))
  /\ mem' = MapSet(mem, addr, readByte(mem, addr))
  /\ UNCHANGED <<reg, sreg, pc, shadow>>

ReadByteOp(addr) ==
  /\ Record(Op("readByte", addr, BYTE, Zero, FALSE, FALSE, 0,
               Val(readByte(mem, addr))))
  /\ UNCHANGED <<mem, reg, sreg, pc, shadow>>

ReadOp(addr, width, signed, ht) ==
  /\ Record(Op("read", addr, width, Zero, signed, ht, 0,
               Val(read(mem, addr, width, signed, ht))))
  /\ UNCHANGED <<mem, reg, sreg, pc, shadow>>

GetUsedAddressesOp ==
  /\ Record(Op("getUsedAddresses", Zero, BYTE, Zero, FALSE, FALSE, 0,
               [kind |-> "array", v |-> getUsedAddresses(mem)]))
  /\ UNCHANGED <<mem, reg, sreg, pc, shadow>>

\* formatSigned(mem.read(addr, width, {signed: true}))
FormatSignedReadOp(addr, width) ==
  /\ Record(Op("formatSignedRead", addr, width, Zero, TRUE, FALSE, 0,
               StrVal(formatSigned(read(mem, addr, width, TRUE, FALSE)))))
  /\ UNCHANGED <<mem, reg, sreg, pc, shadow>>

\* the operations of a Memory64
NextMem ==
  \/ \E a \in PokeAddrs, b \in ByteValues : WriteByteOp(a, b)
  \/ \E a \in Addrs, w \in AllWidths, h \in BOOLEAN :
       WriteOp(a, w, VManual, h)
  \/ \E w \in AllWidths : WriteOp(A1005, w, VMinus1, FALSE)
  \/ \E w \in HighWidths : WriteOp(AHigh, w, VManual, FALSE)
  \/ ClearOp
  \/ \E a \in ByteAddrs : ReadByteOp(a)
  \/ \E a \in Addrs, w \in AllWidths, s \in BOOLEAN : ReadOp(a, w, s, FALSE)
  \/ \E a \in Addrs, w \in FlagWidths, s \in BOOLEAN : ReadOp(a, w, s, TRUE)
  \/ \E w \in HighWidths, s \in BOOLEAN : ReadOp(AHigh, w, s, FALSE)
  \/ GetUsedAddressesOp
  \/ \E w \in Widths : FormatSignedReadOp(A1005, w)

SpecMem == InitMem /\ [][NextMem]_vars

\* --- operations of the machine ---------------------------------------------

\* 2^64 + 5: a value of more than 64 bits
V64p5 == BigOfBytes(<<1, 0, 0, 0, 0, 0, 0, 0, 5>>)

RegIdx == {0, 5, 255, 256}
SpecialIdx == {0, 21, 31, 32}
RegValues == {V64p5, VMinus1}
PcValues == {BigOfNat(256), A1000}

SetRegOp(index, value) ==
  /\ Record(Op("setReg", Zero, BYTE, value, FALSE, FALSE, index, NoResult))
  /\ reg' = setReg(reg, index, value)
  /\ UNCHANGED <<mem, sreg, pc, shadow>>

GetRegOp(index) ==
  /\ Record(Op("getReg", Zero, BYTE, Zero, FALSE, FALSE, index,
               getReg(reg, index)))
  /\ UNCHANGED <<mem, reg, sreg, pc, shadow>>

SetSpecialRegOp(index, value) ==
  /\ Record(Op("setSpecialReg", Zero, BYTE, value, FALSE, FALSE, index,
               NoResult))
  /\ sreg' = setSpecialReg(sreg, index, value)
  /\ UNCHANGED <<mem, reg, pc, shadow>>

GetSpecialRegOp(index) ==
  /\ Record(Op("getSpecialReg", Zero, BYTE, Zero, FALSE, FALSE, index,
               getSpecialReg(sreg, index)))
  /\ UNCHANGED <<mem, reg, sreg, pc, shadow>>

\* machine.pc = value (the program counter is a plain field)
SetPcOp(value) ==
  /\ Record(Op("setPc", Zero, BYTE, value, FALSE, FALSE, 0, NoResult))
  /\ pc' = value
  /\ UNCHANGED <<mem, reg, sreg, shadow>>

ResetOp ==
  /\ Record(Op("reset", Zero, BYTE, Zero, FALSE, FALSE, 0, NoResult))
  /\ LET m == reset(Machine)
     IN  /\ mem' = m.mem
         /\ reg' = m.reg
         /\ sreg' = m.sreg
         /\ pc' = m.pc
  /\ shadow' = NoShadow

\* 0xFFFFFFFE: the largest value of Math.floor(Math.random() * 0xFFFFFFFF)
MaxRandom32 == BigOfBytes(<<255, 255, 255, 254>>)

\* what Math.random returns during one call of randomizeRegisters: of three
\* registers in a row one gets a 64-bit value, one a value below 1000 and one
\* 0, and k says which
Draw(k) ==
  [i \in 0..255 |->
     [first  |-> (i + k) % 3 = 0,
      second |-> (i + k) % 3 = 1,
      high   |-> BSub(MaxRandom32, BigOfNat(i)),
      low    |-> IF i = 0 THEN MaxRandom32 ELSE BigOfNat(i + k),
      small  |-> BigOfNat((37 * i + k) % 1000)]]

\* the values one call passes to setReg, register by register
RandomValues == {[i \in 0..255 |-> randomValue(Draw(k)[i])] : k \in 0..1}

RandomizeRegistersOp(values) ==
  /\ Record(Op("randomizeRegisters", Zero, BYTE, Zero, FALSE, FALSE, 0,
               NoResult))
  /\ reg' = randomizeRegisters(Machine, values).reg
  /\ UNCHANGED <<mem, sreg, pc, shadow>>

\* the operations of an MMIX machine, and the Randomize control of the page
Next ==
  \/ \E i \in RegIdx, v \in RegValues : SetRegOp(i, v)
  \/ \E i \in RegIdx : GetRegOp(i)
  \/ \E i \in SpecialIdx, v \in RegValues : SetSpecialRegOp(i, v)
  \/ \E i \in SpecialIdx : GetSpecialRegOp(i)
  \/ \E v \in PcValues : SetPcOp(v)
  \/ ResetOp
  \/ \E a \in {A1005, BigOfNat(2000)} : WriteByteOp(a, V1AB)
  \/ \E a \in Addrs, w \in {OCTA, HIGH_TETRA} : WriteOp(a, w, VManual, FALSE)
  \/ ClearOp
  \/ \E vs \in RandomValues : RandomizeRegistersOp(vs)

Spec == Init /\ [][Next]_vars

\* --- the accessors of the machine, by index and by name ---------------------

\* the record of a getRegByName call
OpName(name, res) ==
  [op |-> "getRegByName", addr |-> Zero, width |-> BYTE, value |-> Zero,
   signed |-> FALSE, ht |-> FALSE, idx |-> 0, res |-> res, name |-> name]

\* the names getRegByName is called with
Names ==
  { <<"$", "5">>, <<"$", "2", "5", "5">>, <<"$", "2", "5", "6">>,
    <<"$", "9", "9", "9">>, <<"$">>, <<"$", "x">>, <<"$", "5", "x">>,
    <<"$", "-", "1">>, <<"$", " ", "5">>, <<"$", "\t", "5">>,
    <<"$", " ", "5">>,
    <<"r", "A">>, <<"r", "Z", "Z">>, <<"r", "Q", "Q">>,
    <<"t", "o", "S", "t", "r", "i", "n", "g">>, <<>> }

GetRegByNameOp(name) ==
  /\ Record(OpName(name, getRegByName(Machine, name)))
  /\ UNCHANGED <<mem, reg, sreg, pc, shadow>>

RECURSIVE ShadowMessage(_, _)
\* the message bytes in the history of stored bytes
ShadowMessage(sh, i) ==
  IF i < Len(MessageCodes)
  THEN ShadowMessage(
         ShadowWrite(sh, [BigOfNat(2000) EXCEPT ![1] = @ + i], BYTE,
                     BigOfNat(MessageCodes[i + 1]), FALSE),
         i + 1)
  ELSE sh

LoadExampleOp ==
  /\ Record(Op("loadExample", Zero, BYTE, Zero, FALSE, FALSE, 0, NoResult))
  /\ LET m == loadExample(Machine)
     IN  /\ mem' = m.mem
         /\ reg' = m.reg
         /\ sreg' = m.sreg
         /\ pc' = m.pc
  /\ shadow' = ShadowMessage(
                 ShadowWrite(NoShadow, BigOfNat(1000), OCTA, VExample, FALSE),
                 0)

\* a machine used through its accessors: a few stores, and every way of
\* reading it
NextAccess ==
  \/ \E i \in {5, 256} : SetRegOp(i, V64p5)
  \/ \E i \in {21, 32} : SetSpecialRegOp(i, VMinus1)
  \/ SetPcOp(BigOfNat(256))
  \/ WriteOp(A1005, OCTA, VManual, FALSE)
  \/ \E w \in AllWidths \ {OCTA} : WriteOp(A1005, w, V64p5, FALSE)
  \/ WriteOp(A1000, BYTE, VManual, TRUE)
  \/ WriteByteOp(BigOfNat(2000), Zero)
  \/ \E i \in {5, 256} : GetRegOp(i)
  \/ \E i \in {21, 32} : GetSpecialRegOp(i)
  \/ \E n \in Names : GetRegByNameOp(n)
  \/ \E a \in {A1005, BigOfNat(2000)} : ReadByteOp(a)
  \/ \E w \in AllWidths, sg \in BOOLEAN, h \in BOOLEAN :
       ReadOp(A1005, w, sg, h)
  \/ GetUsedAddressesOp
  \/ LoadExampleOp

SpecAccess == Init /\ [][NextAccess]_vars

\* --- the pure functions: alignAddress, formatSigned, formatHex --------------

\* 2^63 - 1, 2^63, 2^64 - 85 (the octabyte 0xFF..FFAB) and 2^64 - 1
VMaxPos == BigOfBytes(<<127, 255, 255, 255, 255, 255, 255, 255>>)
VMinNeg == BigOfBytes(<<128, 0, 0, 0, 0, 0, 0, 0>>)
VFFAB   == BigOfBytes(<<255, 255, 255, 255, 255, 255, 255, 171>>)
VAllOnes == BigOfBytes(<<255, 255, 255, 255, 255, 255, 255, 255>>)

\* the addresses alignAddress is applied to: around 0, around the byte and
\* wyde carries, the addresses of the tests, the top of the 64-bit address
\* space and two addresses beyond it
AlignAddrs ==
  {BigOfNat(n) : n \in (0..16) \cup (250..260) \cup (1000..1007)
                        \cup {65535, 65536}}
    \cup {BSub(VAllOnes, BigOfNat(k)) : k \in 0..8}
    \cup {Shl(One, 64), V64p5}

\* the 64-bit unsigned values the formatters are applied to
FormatValues ==
  {BigOfNat(n) : n \in {0, 1, 9, 10, 15, 16, 99, 100, 123, 171, 255, 256,
                        291, 4096, 65535, 65536, 1000000}}
    \cup {BigOfBytes(<<171, 205, 239>>),
          BigOfBytes(<<1, 35, 69, 103, 137, 171, 205, 239>>),
          BigOfBytes(<<137, 171, 205, 239, 0, 0, 0, 0>>),
          BigOfBytes(<<138, 199, 35, 4, 137, 232, 0, 0>>),
          VMaxPos, VMinNeg, BAdd(VMinNeg, One), VFFAB,
          BSub(VAllOnes, One), VAllOnes}

\* the negative values formatHex is applied to: -1, -85, -256, -2^63 + 1, -2^63
NegValues ==
  {BSub(Zero, v) : v \in {One, BigOfNat(85), BigOfNat(256), VMaxPos, VMinNeg}}

\* the digit counts formatHex is called with (16 is the default)
DigitCounts == {0, 2, 8, 16, 18}

AlignAddressOp(addr, width) ==
  /\ last' = Op("alignAddress", addr, width, Zero, FALSE, FALSE, 0,
                Val(alignAddress(addr, width)))
  /\ UNCHANGED <<mem, reg, sreg, pc, before, shadow, budget>>

FormatSignedOp(value) ==
  /\ last' = Op("formatSigned", Zero, BYTE, value, FALSE, FALSE, 0,
                StrVal(formatSigned(value)))
  /\ UNCHANGED <<mem, reg, sreg, pc, before, shadow, budget>>

FormatHexOp(value, digits) ==
  /\ last' = Op("formatHex", Zero, BYTE, value, FALSE, FALSE, digits,
                StrVal(formatHex(value, digits)))
  /\ UNCHANGED <<mem, reg, sreg, pc, before, shadow, budget>>

\* no object is involved: the state is the last call and its result
InitPure ==
  /\ mem = EmptyMap
  /\ reg = <<>>
  /\ sreg = <<>>
  /\ pc = Zero
  /\ last = NoOp
  /\ before = {}
  /\ shadow = NoShadow
  /\ budget = 0

NextPure ==
  \/ \E a \in AlignAddrs, w \in AllWidths : AlignAddressOp(a, w)
  \/ \E v \in FormatValues : FormatSignedOp(v)
  \/ \E v \in FormatValues \cup NegValues, d \in DigitCounts : FormatHexOp(v, d)

SpecPure == InitPure /\ [][NextPure]_vars

\* ------------------------------------------------------------------------
\* What the claims expect, stated on the byte representation and
\* independently of the operators above
\* ------------------------------------------------------------------------

\* x is in [0, 2^64)
IsUint64(x) == \A i \in ByteIdx : i > 8 => x[i] = 0

\* v masked to its low w*8 bits (v modulo 2^(8w))
LowBytes(v, w) == [i \in ByteIdx |-> IF i <= w THEN v[i] ELSE 0]

\* the BigInt of a byte b in 0..255
ByteVal(b) == [i \in ByteIdx |-> IF i = 1 THEN b ELSE 0]

\* the keys of a store, as a set
KeySet(m) == {m[j].k : j \in 1..Len(m)}

\* the w bytes stored at alignDown(addr, w) .. + w - 1, least significant
\* (the one at the highest address) first
StoredAt(store, addr, w) ==
  [j \in 1..w |-> readByte(store, Offset(AlignDown(addr, w), w - j))[1]]

\* the 64-bit value of a read of width w: the stored bytes in its low w*8
\* bits, and bits w*8..63 equal to the top stored bit when signed, else zero
ExpectedRead(store, addr, w, signed) ==
  LET b   == StoredAt(store, addr, w)
      neg == signed /\ b[w] >= 128
  IN  [i \in ByteIdx |->
         IF i <= w THEN b[i] ELSE IF i <= 8 /\ neg THEN 255 ELSE 0]

\* the value of a high-tetra read: the stored tetra in bits 32..63
ExpectedHigh(store, addr) ==
  LET b == StoredAt(store, addr, 4)
  IN  [i \in ByteIdx |-> IF i \in 5..8 THEN b[i - 4] ELSE 0]

\* ------------------------------------------------------------------------
\* Claims
\* ------------------------------------------------------------------------

\* C1 (SpecMem): round trip.  In the state right after write(A, W, V), for W
\* one of BYTE, WYDE, TETRA, OCTA and any A (aligned or not), the unsigned
\* read(A, W) returns V masked to its low W*8 bits.
C1_RoundTrip ==
  (last.op = "write" /\ last.width \in Widths /\ ~last.ht)
    => read(mem, last.addr, last.width, FALSE, FALSE)
         = LowBytes(last.value, last.width)

\* C1 witness: a tetra of 2^64 + 0x0123456789ABCDEF written at the unaligned
\* address 1005 over a memory that already held bytes reads back 0x89ABCDEF.
C1_Witness ==
  /\ last.op = "write" /\ last.addr = A1005 /\ last.width = TETRA
  /\ ~last.ht /\ last.value = VManual /\ "mem" \in before
  /\ read(mem, A1005, TETRA, FALSE, FALSE) = BigOfBytes(<<137, 171, 205, 239>>)

\* C2 as claimed (SpecMem): after write(A, OCTA, V) the eight readByte calls
\* at A, A+1, ..., A+7 return the bytes of V, most significant at A.
C2_ByteOrderAtA ==
  (last.op = "write" /\ last.width = OCTA /\ ~last.ht)
    => \A i \in 0..7 :
         readByte(mem, BAdd(last.addr, BigOfNat(i))) = ByteVal(last.value[8 - i])

\* C2 as amended (SpecMem): after write(A, OCTA, V) the eight readByte calls
\* at alignDown(A, 8), ..., alignDown(A, 8) + 7 return the bytes of V, most
\* significant first (these are A..A+7 when A is a multiple of 8).
C2_ByteOrderAligned ==
  (last.op = "write" /\ last.width = OCTA /\ ~last.ht)
    => \A i \in 0..7 :
         readByte(mem, Offset(AlignDown(last.addr, 8), i))
           = ByteVal(last.value[8 - i])

\* C2 witness: the octabyte written at the unaligned address 1005 has its most
\* significant byte 0x01 at 1000 and its least significant byte 0xEF at 1007.
C2_Witness ==
  /\ last.op = "write" /\ last.width = OCTA /\ ~last.ht
  /\ last.addr = A1005 /\ last.value = VManual
  /\ readByte(mem, A1000) = ByteVal(1)
  /\ readByte(mem, A1005) = ByteVal(171)
  /\ readByte(mem, BigOfNat(1007)) = ByteVal(239)

\* C3 as claimed (SpecMem): read(A, W, {signed}) returns a value in [0, 2^64)
\* whose low W*8 bits are the stored big-endian bytes and whose bits W*8..63
\* equal the top bit of the W-byte value when signed is set and are zero when
\* it is not.
C3_SignExtension ==
  (last.op = "read" /\ last.width \in Widths /\ ~last.ht)
    => /\ last.res.kind = "value"
       /\ IsUint64(last.res.v)
       /\ last.res.v = ExpectedRead(mem, last.addr, last.width, last.signed)

\* C4 (SpecMem): readByte(a) returns the low 8 bits of the byte last stored
\* at a since construction or the last clear, 0 if there is none, and always
\* a value in 0..255.
C4_ByteSemantics ==
  \A a \in ByteAddrs \cup DOMAIN shadow :
    LET r == readByte(mem, a)
    IN  /\ r = ByteVal(IF a \in DOMAIN shadow THEN shadow[a] ELSE 0)
        /\ r[1] \in 0..255
        /\ \A i \in ByteIdx : i > 1 => r[i] = 0

\* C4 witness: writeByte(1005, 0x1AB) over the stored octabyte leaves 0xAB at
\* 1005, the octabyte's first byte at 1000 and 0 at the unwritten 2000.
C4_Witness ==
  /\ last.op = "writeByte" /\ last.addr = A1005 /\ last.value = V1AB
  /\ Len(mem) = 8
  /\ readByte(mem, A1005) = ByteVal(171)
  /\ readByte(mem, A1000) \in {ByteVal(1), ByteVal(255)}
  /\ readByte(mem, BigOfNat(2000)) = Zero

\* C5 (SpecMem): read(A, HIGH_TETRA), and read with highTetra set at any
\* width, returns the 4 bytes stored at alignDown(A, 4)..+3, big-endian, in
\* bits 32..63 with bits 0..31 zero, whether or not signed is set.
C5_HighTetraRead ==
  (last.op = "read" /\ (last.width = HIGH_TETRA \/ last.ht))
    => last.res = Val(ExpectedHigh(mem, last.addr))

\* C5 witness: with the octabyte 0x0123456789ABCDEF at 1000, a signed read at
\* 1005 of advertised width OCTA with highTetra set returns
\* 0x89ABCDEF00000000.
C5_Witness ==
  /\ last.op = "read" /\ last.addr = A1005 /\ last.width = OCTA
  /\ last.ht /\ last.signed
  /\ last.res = Val(BigOfBytes(<<137, 171, 205, 239, 0, 0, 0, 0>>))

\* C6 (SpecMem): write(A, HIGH_TETRA, V), and write with highTetra set at any
\* width, stores exactly the 4 bytes of bits 32..63 of V, most significant
\* first, at alignDown(A, 4)..+3: these four addresses hold those bytes, they
\* are the only keys added, and every other stored byte is unchanged.
C6_HighTetraWrite ==
  [][(last'.op = "write" /\ (last'.width = HIGH_TETRA \/ last'.ht))
       => LET base  == AlignDown(last'.addr, 4)
              block == {Offset(base, i) : i \in 0..3}
          IN  /\ \A i \in 0..3 :
                   readByte(mem', Offset(base, i)) = ByteVal(last'.value[8 - i])
              /\ KeySet(mem') = KeySet(mem) \cup block
              /\ \A a \in KeySet(mem) \ block :
                   readByte(mem', a) = readByte(mem, a)]_vars

\* C6 witness: write(1005, HIGH_TETRA, 2^64 + 0x0123456789ABCDEF) over the
\* stored octabyte puts 01 23 45 67 at 1004..1007 and leaves 1000..1003.
C6_Witness ==
  /\ last.op = "write" /\ last.width = HIGH_TETRA /\ last.addr = A1005
  /\ last.value = VManual /\ Len(mem) = 8
  /\ [i \in 0..7 |-> readByte(mem, BigOfNat(1000 + i))[1]]
       \in {[i \in 0..7 |-> <<1, 35, 69, 103, 1, 35, 69, 103>>[i + 1]],
            [i \in 0..7 |-> <<255, 255, 255, 255, 1, 35, 69, 103>>[i + 1]]}

\* C7 (Spec): setReg(i, v) for i in 0..255 followed by getReg(i) returns
\* v mod 2^64, likewise setSpecialReg and getSpecialReg for slots 0..31, and
\* every stored register value is in [0, 2^64).
C7_RegisterMasking ==
  /\ (last.op = "setReg" /\ last.idx \in 0..255)
       => getReg(reg, last.idx) = Val(LowBytes(last.value, 8))
  /\ (last.op = "setSpecialReg" /\ last.idx \in 0..31)
       => getSpecialReg(sreg, last.idx) = Val(LowBytes(last.value, 8))
  /\ \A i \in DOMAIN reg : IsUint64(reg[i])
  /\ \A i \in DOMAIN sreg : IsUint64(sreg[i])

\* C7 witness: setReg(255, 2^64 + 5) leaves 5 in register 255.
C7_Witness ==
  /\ last.op = "setReg" /\ last.idx = 255 /\ last.value = V64p5
  /\ getReg(reg, 255) = Val(BigOfNat(5))

\* C8 (Spec): after reset() every general register 0..255, every special
\* register slot 0..31 and the program counter are 0.
C8_ResetRegisters ==
  last.op = "reset"
    => /\ \A i \in 0..255 : getReg(reg, i) = Val(Zero)
       /\ \A i \in 0..31 : getSpecialReg(sreg, i) = Val(Zero)
       /\ pc = Zero

\* C8 witness: a reset of a machine whose special registers and program
\* counter had been written.
C8_Witness ==
  /\ last.op = "reset" /\ {"sreg", "pc"} \subseteq before
  /\ getSpecialReg(sreg, 31) = Val(Zero) /\ pc = Zero

\* C9 as claimed (Spec): reset() does not affect memory: readByte(a) for
\* every a and getUsedAddresses() return after reset() what they returned
\* before it.
C9_ResetKeepsMemory ==
  [][last'.op = "reset"
       => /\ \A a \in ByteAddrs : readByte(mem', a) = readByte(mem, a)
          /\ getUsedAddresses(mem') = getUsedAddresses(mem)]_vars

\* C9 as amended (Spec): reset() empties the memory as clear() does: after it
\* readByte(a) is 0 for every address a, used before or not, and
\* getUsedAddresses() is empty; and a memory that held bytes becomes empty
\* only by reset() or clear().
C9_ResetClearsMemory ==
  [][/\ last'.op = "reset"
          => /\ \A a \in ByteAddrs \cup KeySet(mem) : readByte(mem', a) = Zero
             /\ getUsedAddresses(mem') = <<>>
     /\ (mem # EmptyMap /\ mem' = EmptyMap) => last'.op \in {"reset", "clear"}]_vars

\* C9 witness: a reset of a machine whose memory held bytes.
C9_Witness ==
  /\ last.op = "reset" /\ "mem" \in before
  /\ getUsedAddresses(mem) = <<>>

\* C10 (Spec): after reset() the registers and the program counter are 0 and
\* the memory is empty: read(a, W) returns 0 for every address a, every width
\* W and every option.
C10_ResetAll ==
  last.op = "reset"
    => /\ \A i \in DOMAIN reg : reg[i] = Zero
       /\ \A i \in DOMAIN sreg : sreg[i] = Zero
       /\ pc = Zero
       /\ mem = EmptyMap
       /\ \A a \in ByteAddrs, w \in AllWidths, s \in BOOLEAN, h \in BOOLEAN :
            read(mem, a, w, s, h) = Zero

\* C10 witness: a reset of a machine with a written register and a written
\* memory, after which an octabyte read returns 0.
C10_Witness ==
  /\ last.op = "reset" /\ {"reg", "mem"} \subseteq before
  /\ getReg(reg, 0) = Val(Zero)
  /\ read(mem, A1000, OCTA, FALSE, FALSE) = Zero

\* a name of the form $i with i a decimal index in 0..255
IsGeneralName(cs) ==
  /\ Len(cs) \in 2..4
  /\ cs[1] = "$"
  /\ \A j \in 2..Len(cs) : IsDecDigit(cs[j])
  /\ DigitsValue(slice(cs, 1), 0) \in 0..255

\* a mnemonic of the special-register table
IsMnemonic(cs) == Str(cs) \in DOMAIN SpecialReg

\* C11 as claimed (SpecAccess): getRegByName($i) with i in 0..255 returns
\* getReg(i), getRegByName of a table mnemonic returns getSpecialReg of its
\* slot, and every other name ($n with n >= 256, a non-numeric suffix, ...)
\* raises an error and returns no value.
C11_GetRegByName ==
  last.op = "getRegByName"
    => IF IsGeneralName(last.name)
       THEN last.res = getReg(reg, DigitsValue(slice(last.name, 1), 0))
       ELSE IF IsMnemonic(last.name)
       THEN last.res = getSpecialReg(sreg, SpecialReg[Str(last.name)])
       ELSE last.res = Thrown

\* C12 as claimed (Spec): getReg and setReg with an index outside 0..255,
\* and getSpecialReg and setSpecialReg with an index outside 0..31, raise an
\* error: they neither return a value nor complete silently.
C12_OutOfRangeIndex ==
  /\ (last.op \in {"getReg", "setReg"} /\ last.idx \notin 0..255)
       => last.res = Thrown
  /\ (last.op \in {"getSpecialReg", "setSpecialReg"} /\ last.idx \notin 0..31)
       => last.res = Thrown

\* C13 (SpecAccess): setReg with an index outside 0..255, setSpecialReg with
\* an index outside 0..31 and getRegByName with a name that is neither $i
\* (i in 0..255) nor a table mnemonic leave every general register, every
\* special register, the program counter and the memory as they were.
C13_NoMutationOnInvalid ==
  [][(\/ last'.op = "setReg" /\ last'.idx \notin 0..255
      \/ last'.op = "setSpecialReg" /\ last'.idx \notin 0..31
      \/ /\ last'.op = "getRegByName"
         /\ ~IsGeneralName(last'.name) /\ ~IsMnemonic(last'.name))
       => /\ reg' = reg /\ sreg' = sreg /\ pc' = pc /\ mem' = mem]_vars

\* C13 witness: setReg(256, 2^64 + 5) on a machine whose register 5, special
\* register 21 and memory had been written: all three are as before.
C13_Witness ==
  /\ last.op = "setReg" /\ last.idx = 256
  /\ {"reg", "mem"} \subseteq before
  /\ getReg(reg, 5) = Val(BigOfNat(5))
  /\ getReg(reg, 255) = Val(Zero)
  /\ mem # EmptyMap

\* C14 (SpecPure): for a non-negative address A and a width W of effective
\* size w (4 for HIGH_TETRA), alignAddress(A, W) returns a value r that is a
\* multiple of w with r <= A and A - r < w; r is the only such number; and
\* alignAddress(r, W) = r.
C14_Alignment ==
  (last.op = "alignAddress" /\ ~IsNeg(last.addr))
    => LET A == last.addr
           w == EffWidth(last.width, FALSE)
           r == last.res.v
       IN  /\ last.res.kind = "value"
           /\ r[1] % w = 0
           /\ ~IsNeg(r) /\ ~BLess(A, r)
           /\ ~IsNeg(BSub(A, r)) /\ BLess(BSub(A, r), BigOfNat(w))
           /\ \A k \in 0..(w - 1) :
                LET c == BSub(A, BigOfNat(k))
                IN  c[1] % w = 0 => c = r
           /\ r = AlignDown(A, w)
           /\ alignAddress(r, last.width) = r

\* C14 witness: alignAddress(2^64 - 3, HIGH_TETRA) is 2^64 - 4.
C14_Witness ==
  /\ last.op = "alignAddress" /\ last.width = HIGH_TETRA
  /\ last.addr = BSub(VAllOnes, BigOfNat(2))
  /\ last.res = Val(BigOfBytes(<<255, 255, 255, 255, 255, 255, 255, 252>>))

RECURSIVE MulAddFrom(_, _, _, _)
\* byte-wise x * m + c from byte i up (t is the product of this byte with
\* the carry added)
MulAddFrom(x, m, i, c) ==
  IF i > NB THEN <<>>
  ELSE CHOOSE r \in
         {<<t % 256>> \o MulAddFrom(x, m, i + 1, t \div 256) :
            t \in {x[i] * m + c}} : TRUE

\* x * m + a for small numbers m and a
MulAdd(x, m, a) == MulAddFrom(x, m, 1, a)

UpperDigits ==
  <<"0", "1", "2", "3", "4", "5", "6", "7", "8", "9",
    "A", "B", "C", "D", "E", "F">>

\* c is a digit of the radix, written in upper case
IsDigitIn(c, radix) == \E d \in 1..radix : UpperDigits[d] = c

RECURSIVE NumeralValue(_, _, _)
\* the number the digits cs denote in the radix, after the digits read so far
NumeralValue(cs, radix, acc) ==
  IF cs = <<>> THEN acc
  ELSE CHOOSE r \in
         {NumeralValue(Tail(cs), radix, a) :
            a \in {MulAdd(acc, radix,
                          (CHOOSE d \in 1..radix : UpperDigits[d] = Head(cs))
                            - 1)}} : TRUE

\* cs is the decimal numeral of a number: digits, with a minus sign in front
\* for a negative number, no leading zero and no "-0"
IsDecimalNumeral(cs) ==
  LET ds == IF cs # <<>> /\ cs[1] = "-" THEN Tail(cs) ELSE cs
  IN  /\ ds # <<>>
      /\ \A j \in 1..Len(ds) : IsDigitIn(ds[j], 10)
      /\ ds[1] = "0" => cs = <<"0">>

\* the number a decimal numeral denotes
DecimalValue(cs) ==
  IF cs[1] = "-" THEN BSub(Zero, NumeralValue(Tail(cs), 10, Zero))
  ELSE NumeralValue(cs, 10, Zero)

\* the two's-complement signed value of the 64-bit pattern v
SignedOf(v) ==
  [i \in ByteIdx |-> IF i <= 8 THEN v[i] ELSE IF v[8] >= 128 THEN 255 ELSE 0]

\* C17 (SpecPure): for v in [0, 2^64), formatSigned(v) is the decimal numeral
\* of v - 2^64 when bit 63 of v is set and of v otherwise.
C17_FormatSigned ==
  (last.op = "formatSigned" /\ IsUint64(last.value))
    => /\ last.res.kind = "string"
       /\ IsDecimalNumeral(last.res.v)
       /\ DecimalValue(last.res.v) = SignedOf(last.value)
       /\ (last.res.v[1] = "-") = (last.value[8] >= 128)

\* C17 witness: formatSigned(0xFFFFFFFFFFFFFFFF) is "-1".
C17_Witness ==
  /\ last.op = "formatSigned" /\ last.value = VAllOnes
  /\ last.res = StrVal(<<"-", "1">>)

\* v is in [-2^63, 2^64)
InHexDomain(v) ==
  \/ IsUint64(v)
  \/ v[8] >= 128 /\ \A i \in ByteIdx : i > 8 => v[i] = 255

\* the number of hexadecimal digits of u in [0, 2^64), 1 for 0
NaturalHexLen(u) ==
  IF u = Zero THEN 1
  ELSE LET top == CHOOSE i \in 1..8 :
                    u[i] # 0 /\ \A j \in (i + 1)..8 : u[j] = 0
       IN  2 * (top - 1) + (IF u[top] >= 16 THEN 2 ELSE 1)

\* C18 (SpecPure): for v in [-2^63, 2^64) and a digit count d, formatHex(v, d)
\* is the upper-case hexadecimal numeral of v mod 2^64, padded on the left
\* with "0" to d characters and never truncated; for negative v it equals
\* formatHex(v + 2^64, d).
C18_FormatHex ==
  (last.op = "formatHex" /\ InHexDomain(last.value))
    => LET cs == last.res.v
           u  == LowBytes(last.value, 8)
           n  == NaturalHexLen(u)
       IN  /\ last.res.kind = "string"
           /\ \A j \in 1..Len(cs) : IsDigitIn(cs[j], 16)
           /\ NumeralValue(cs, 16, Zero) = u
           /\ Len(cs) = IF last.idx > n THEN last.idx ELSE n
           /\ IsNeg(last.value)
                => cs = formatHex(BAdd(last.value, Shl(One, 64)), last.idx)

\* C18 witness: formatHex(-1, 16) is "FFFFFFFFFFFFFFFF".
C18_Witness ==
  /\ last.op = "formatHex" /\ last.value = BSub(Zero, One) /\ last.idx = 16
  /\ last.res = StrVal([j \in 1..16 |-> "F"])

\* the entries of a store whose address is in the set S, in their order
Restrict(store, S) == SelectSeq(store, LAMBDA e : e.k \in S)

\* C15 as claimed (SpecMem): read(A, W, opts) returns what
\* read(alignDown(A, W), W, opts) returns and depends on no byte outside the
\* aligned W-byte block of A (4 bytes for HIGH_TETRA); write(A, W, V, opts)
\* leaves the memory that write(alignDown(A, W), W, V, opts) leaves, with
\* every byte outside the aligned W-byte block of A as it was.
C15_RoundedDownByWidth ==
  [][LET o    == last'
         base == AlignDown(o.addr, EffWidth(o.width, FALSE))
         B    == Block(o.addr, o.width, FALSE)
     IN  /\ o.op = "read"
              => /\ o.res = Val(read(mem, base, o.width, o.signed, o.ht))
                 /\ o.res = Val(read(Restrict(mem, B), o.addr, o.width,
                                     o.signed, o.ht))
         /\ o.op = "write"
              => /\ mem' = write(mem, base, o.width, o.value, o.ht)
                 /\ KeySet(mem') \ B = KeySet(mem) \ B
                 /\ Restrict(mem', KeySet(mem') \ B)
                      = Restrict(mem, KeySet(mem) \ B)]_vars

\* C15 (SpecMem), with the effective size w of the access (4 for HIGH_TETRA
\* and for every width with the option highTetra, W otherwise) in the place
\* of W: read(A, W, opts) returns what read(alignDown(A, w), W, opts) returns
\* and depends on no byte outside the aligned w-byte block of A; write(A, W,
\* V, opts) leaves the memory that write(alignDown(A, w), W, V, opts) leaves,
\* with every byte outside the aligned w-byte block of A as it was.
C15_RoundedDown ==
  [][LET o    == last'
         base == AlignDown(o.addr, EffWidth(o.width, o.ht))
         B    == Block(o.addr, o.width, o.ht)
     IN  /\ o.op = "read"
              => /\ o.res = Val(read(mem, base, o.width, o.signed, o.ht))
                 /\ o.res = Val(read(Restrict(mem, B), o.addr, o.width,
                                     o.signed, o.ht))
         /\ o.op = "write"
              => /\ mem' = write(mem, base, o.width, o.value, o.ht)
                 /\ KeySet(mem') \ B = KeySet(mem) \ B
                 /\ Restrict(mem', KeySet(mem') \ B)
                      = Restrict(mem, KeySet(mem) \ B)]_vars

\* C15 witness: after a write of the manual's octabyte at 1000, the octabyte
\* read at 1005 with the option highTetra returns the tetra stored at
\* 1004..1007 in its high half, 0x89ABCDEF00000000 (the read at 1000 with the
\* same option returns 0x0123456700000000).
C15_Witness ==
  /\ last.op = "read" /\ last.addr = A1005 /\ last.width = OCTA /\ last.ht
  /\ Len(mem) = 8
  /\ last.res = Val(BigOfBytes(<<137, 171, 205, 239, 0, 0, 0, 0>>))
  /\ read(mem, A1000, OCTA, last.signed, TRUE)
       = BigOfBytes(<<1, 35, 69, 103, 0, 0, 0, 0>>)

\* x < y for non-negative x and y, byte by byte
LessU(x, y) ==
  \E i \in ByteIdx : x[i] < y[i] /\ \A j \in ByteIdx : j > i => x[j] = y[j]

\* C16 (SpecMem): getUsedAddresses() returns, in strictly ascending order and
\* without duplicates, exactly the addresses stored to since construction or
\* the last clear(), whatever byte they hold and however often they were
\* stored to; reads add nothing; it is empty for a new or a cleared store.
C16_UsedAddresses ==
  LET u == getUsedAddresses(mem)
  IN  /\ \A j \in 1..(Len(u) - 1) : LessU(u[j], u[j + 1])
      /\ {u[j] : j \in 1..Len(u)} = DOMAIN shadow
      /\ last.op = "getUsedAddresses"
           => last.res = [kind |-> "array", v |-> u]
      /\ last.op \in {"new", "clear"} => u = <<>>

\* C16 witness: after write(1005, OCTA, V), which stores 1007 first and 1000
\* last, getUsedAddresses() returns 1000, 1001, ..., 1007.
C16_Witness ==
  /\ last.op = "getUsedAddresses"
  /\ MapKeys(mem) = [j \in 1..8 |-> BigOfNat(1008 - j)]
  /\ last.res.v = [j \in 1..8 |-> BigOfNat(999 + j)]

\* C19 (SpecAccess): readByte, read, getUsedAddresses, getReg, getSpecialReg
\* and getRegByName leave the memory (its entries and their order), every
\* register and the program counter unchanged; a read of an address never
\* stored to adds no entry, so getUsedAddresses() is as before.
C19_ReadsArePure ==
  [][last'.op \in {"readByte", "read", "getUsedAddresses", "getReg",
                   "getSpecialReg", "getRegByName"}
       => /\ mem' = mem /\ reg' = reg /\ sreg' = sreg /\ pc' = pc
          /\ getUsedAddresses(mem') = getUsedAddresses(mem)
          /\ ~MapHas(mem, last'.addr) => ~MapHas(mem', last'.addr)]_vars

\* C19 witness: readByte(2000) on a machine whose memory holds other bytes
\* returns 0 and 2000 is still not a used address.
C19_Witness ==
  /\ last.op = "readByte" /\ last.addr = BigOfNat(2000)
  /\ "mem" \in before
  /\ last.res = Val(Zero)
  /\ ~MapHas(mem, BigOfNat(2000))
  /\ Len(getUsedAddresses(mem)) \in {4, 8}

\* C20 (SpecAccess): write(A, W, V, opts) of effective size w makes the w
\* addresses alignDown(A, w) .. + w - 1 used (also those that receive a 0
\* byte) and no other; every other address reads as before, and the
\* registers and the program counter are unchanged.  writeByte(a, b) does the
\* same for the single address a.
C20_WriteFrame ==
  [][LET o == last'
         B == IF o.op = "write" THEN Block(o.addr, o.width, o.ht)
              ELSE {o.addr}
     IN  o.op \in {"write", "writeByte"}
           => /\ KeySet(mem') = KeySet(mem) \cup B
              /\ \A a \in (KeySet(mem) \cup ByteAddrs) \ B :
                   readByte(mem', a) = readByte(mem, a)
              /\ reg' = reg /\ sreg' = sreg /\ pc' = pc]_vars

\* C20 witness: write(1005, TETRA, 2^64 + 5) on a machine with a written
\* register 5 and a used address 2000 makes 1004..1007 used, 1004..1006
\* with a 0 byte, and leaves 2000 and register 5.
C20_Witness ==
  /\ last.op = "write" /\ last.width = TETRA /\ last.value = V64p5
  /\ {"reg", "mem"} \subseteq before
  /\ KeySet(mem) = {BigOfNat(1004 + i) : i \in 0..3} \cup {BigOfNat(2000)}
  /\ readByte(mem, BigOfNat(1004)) = Zero
  /\ readByte(mem, BigOfNat(1007)) = BigOfNat(5)
  /\ getReg(reg, 5) = Val(BigOfNat(5))

\* C21 (Spec): setReg(i, v) with i in 0..255 changes general register i only,
\* and setSpecialReg(s, v) with s in 0..31 changes special slot s only: every
\* other general register, every other special slot, the program counter and
\* the memory are as before (a store to one file never shows in the other).
C21_RegisterIndependence ==
  [][/\ (last'.op = "setReg" /\ last'.idx \in 0..255)
          => /\ \A j \in 0..255 : j # last'.idx => reg'[j] = reg[j]
             /\ sreg' = sreg /\ pc' = pc /\ mem' = mem
     /\ (last'.op = "setSpecialReg" /\ last'.idx \in 0..31)
          => /\ \A j \in 0..31 : j # last'.idx => sreg'[j] = sreg[j]
             /\ reg' = reg /\ pc' = pc /\ mem' = mem]_vars

\* C21 witness: setSpecialReg(0, -1) on a machine whose general register 0
\* holds 5 and whose memory is written: slot 0 is 2^64 - 1, register 0 is
\* still 5 and special slot 21 is still 0.
C21_Witness ==
  /\ last.op = "setSpecialReg" /\ last.idx = 0 /\ last.value = VMinus1
  /\ {"reg", "mem"} \subseteq before
  /\ getReg(reg, 0) = Val(BigOfNat(5))
  /\ getSpecialReg(sreg, 0) = Val(VAllOnes)
  /\ getSpecialReg(sreg, 21) = Val(Zero)
  /\ mem # EmptyMap

\* the machine a new page shows after Load Example
ExampleMachine ==
  loadExample([mem  |-> EmptyMap,
               reg  |-> [i \in 0..(NumRegs - 1) |-> Zero],
               sreg |-> [i \in 0..(NumSpecialRegs - 1) |-> Zero],
               pc   |-> Zero])

\* the addresses 1000..1007 and 2000..2010
ExampleAddrs ==
  {BigOfNat(1000 + i) : i \in 0..7} \cup {BigOfNat(2000 + i) : i \in 0..10}

\* C22 (SpecAccess): whatever the registers, the program counter and the
\* memory were, after loadExample() the machine is the one a new machine
\* becomes: register 0 is 0x0123456789ABCDEF, read(1000, OCTA) is
\* 0x0123456789ABCDEF, the program counter is 0x100, and the used addresses
\* are exactly 1000..1007 and 2000..2010.
C22_LoadExample ==
  last.op = "loadExample"
    => /\ Machine = ExampleMachine
       /\ getReg(reg, 0) = Val(VExample)
       /\ read(mem, BigOfNat(1000), OCTA, FALSE, FALSE) = VExample
       /\ pc = BigOfNat(256)
       /\ KeySet(mem) = ExampleAddrs
       /\ Len(getUsedAddresses(mem)) = 19
       /\ \A i \in 0..255 : i > 3 => reg[i] = Zero
       /\ \A i \in 0..31 : sreg[i] = (IF i = 19 THEN BigOfNat(32) ELSE Zero)

\* C22 witness: loadExample() on a machine whose registers and memory had
\* been written: register 5 is 0, register 1 is 1000, 2010 holds "!" and 1005
\* holds 0xAB.
C22_Witness ==
  /\ last.op = "loadExample"
  /\ {"reg", "mem"} \subseteq before
  /\ getReg(reg, 5) = Val(Zero)
  /\ getReg(reg, 1) = Val(BigOfNat(1000))
  /\ readByte(mem, BigOfNat(2010)) = BigOfNat(33)
  /\ readByte(mem, A1005) = BigOfNat(171)

\* the two's-complement value of the w bytes stored at alignDown(addr, w)
SignedStored(store, addr, w) ==
  LET b == StoredAt(store, addr, w)
  IN  [i \in ByteIdx |-> IF i <= w THEN b[i] ELSE IF b[w] >= 128 THEN 255 ELSE 0]

\* C23 as claimed (SpecMem): for every memory content, address A and width W
\* in {BYTE, WYDE, TETRA, OCTA}, formatSigned(read(A, W, signed)) is the
\* decimal numeral of the two's-complement value of the W bytes stored at
\* alignDown(A, W); a stored byte 0xAB renders as -85.
C23_SignedReadFormat ==
  last.op = "formatSignedRead"
    => /\ IsDecimalNumeral(last.res.v)
       /\ DecimalValue(last.res.v) = SignedStored(mem, last.addr, last.width)

====
